---- MODULE Spec2Model ----
(***************************************************************************)
(* Model of encoding-bench (src/src/lib.rs): positioned writes into a      *)
(* growable byte vector, raw little-endian integer writers, the LEB128     *)
(* encoder and decoder strategies and the "lesqlite" encoder.              *)
(*                                                                         *)
(* An unsigned integer is modelled as the set of the positions of its one  *)
(* bits (bit 0 is the least significant), so that 64- and 128-bit values   *)
(* keep their exact width.  A byte is a number in 0..255.  A Vec<u8> is a  *)
(* sequence of bytes.                                                      *)
(***************************************************************************)
EXTENDS Integers, Sequences, FiniteSets, TLC

VARIABLES
    ty,               \* integer type of the call under test
    value,            \* the integer passed to the call (a bit set)
    vec,              \* the Vec<u8> handed to the call, before the call
    start_position,   \* the start position handed to the call
    input,            \* the byte slice handed to a slice writer
    res,              \* outcome of each operation already called on the inputs
    overflow_checks,  \* TRUE when the build traps on integer overflow
    fun,              \* the function a benchmark or a test is instantiated with
    variant,          \* the type of the test data a benchmark takes its values from
    output,           \* impl_bench: the vector the loop appends to
    bench_position,   \* impl_bench, impl_read_bench: the loop's `position`
    test_data,        \* the values already taken from the test data
    encoded,          \* the slice handed to the decoders
    dres              \* outcome of each decoder already called on the slice

vars == <<ty, value, vec, start_position, input, res, overflow_checks,
          fun, variant, output, bench_position, test_data, encoded, dres>>

callVars == <<ty, value, vec, start_position, input, overflow_checks>>
benchVars == <<fun, variant, output, bench_position, test_data>>
readVars == <<encoded, dres>>

\* a variable that a scenario does not use
Unused == "-"

\* ------------------------------------------------------------- bounds
MaxVecLen == 2
MaxInputLen == 2
MaxVals == 2

\* ------------------------------------------------- integers as bit sets
Max(a, b) == IF a >= b THEN a ELSE b
Min(a, b) == IF a <= b THEN a ELSE b

\* the bit set of a natural number below 2^30
NatBits(n) == {b \in 0..29 : (n \div (2 ^ b)) % 2 = 1}

\* the bit sets of the bytes
ByteBits == [n \in 0..255 |-> {b \in 0..7 : (n \div (2 ^ b)) % 2 = 1}]

Bit(v, b) == IF b \in v THEN 1 ELSE 0

\* the natural number of a bit set below bit 30
BitsNat(s) ==
    LET weights == [b \in 0..29 |-> 2 ^ b]
        bits == [b \in 0..29 |-> IF b \in s THEN weights[b] ELSE 0]
    IN  bits[0] + bits[1] + bits[2] + bits[3] + bits[4] + bits[5] + bits[6]
        + bits[7] + bits[8] + bits[9] + bits[10] + bits[11] + bits[12]
        + bits[13] + bits[14] + bits[15] + bits[16] + bits[17] + bits[18]
        + bits[19] + bits[20] + bits[21] + bits[22] + bits[23] + bits[24]
        + bits[25] + bits[26] + bits[27] + bits[28] + bits[29]

\* number of significant bits: width - leading_zeros()
BitLength(v) == IF v = {} THEN 0 ELSE 1 + (CHOOSE b \in v : \A c \in v : c <= b)

\* v >> n
Shr(v, n) == {b - n : b \in {c \in v : c >= n}}
\* (v << n) truncated to a width of w bits
Shl(v, n, w) == {b + n : b \in {c \in v : c + n < w}}
\* v as a narrower (or equal) integer of w bits
Truncate(v, w) == {b \in v : b < w}
\* (v >> n) as u8
ByteAt(v, n) ==
    Bit(v, n) + 2 * Bit(v, n + 1) + 4 * Bit(v, n + 2) + 8 * Bit(v, n + 3)
    + 16 * Bit(v, n + 4) + 32 * Bit(v, n + 5) + 64 * Bit(v, n + 6)
    + 128 * Bit(v, n + 7)

\* ------------------------------------------------------ Vec<u8> machine
\* The effect of a function body on the vector: the vector, the log of the
\* vector operations performed so far, and whether the body panicked.
Machine(v) == [out |-> v, log |-> <<>>, status |-> "ok"]

Event(o, a, b) == [op |-> o, at |-> a, val |-> b]

Panic(m) == [m EXCEPT !.status = "panic"]

\* Vec::push
vec_push(m, byte) ==
    IF m.status # "ok" THEN m
    ELSE [m EXCEPT !.out = Append(m.out, byte),
                   !.log = Append(m.log, Event("push", Len(m.out), byte))]

\* vec[position] = byte, bounds checked
vec_store(m, position, byte) ==
    IF m.status # "ok" THEN m
    ELSE IF position >= Len(m.out) THEN Panic(m)
    ELSE [m EXCEPT !.out = [m.out EXCEPT ![position + 1] = byte],
                   !.log = Append(m.log, Event("store", position, byte))]

\* (&mut output[start..]).copy_from_slice(src): panics when start is out of
\* range or when the two slices differ in length
vec_copy_from_slice(m, start, src) ==
    IF m.status # "ok" THEN m
    ELSE IF start > Len(m.out) THEN Panic(m)
    ELSE IF Len(m.out) - start # Len(src) THEN Panic(m)
    ELSE [m EXCEPT !.out = [i \in 1..Len(m.out) |->
                               IF i > start THEN src[i - start] ELSE m.out[i]],
                   !.log = Append(m.log, Event("copy", start, Len(src)))]

\* Vec::extend_from_slice
vec_extend_from_slice(m, src) ==
    IF m.status # "ok" THEN m
    ELSE [m EXCEPT !.out = m.out \o src,
                   !.log = Append(m.log, Event("extend", Len(m.out), Len(src)))]

\* ---------------------------------------- writing a slice to a vector
RECURSIVE write_to_vec_solo_loop(_, _, _, _)
write_to_vec_solo_loop(m, position, bytes, i) ==
    IF i > Len(bytes) \/ m.status # "ok" THEN m
    ELSE write_to_vec_solo_loop(
             IF position = Len(m.out) THEN vec_push(m, bytes[i])
                                      ELSE vec_store(m, position, bytes[i]),
             position + 1, bytes, i + 1)

write_to_vec_solo(m, position, bytes) ==
    write_to_vec_solo_loop(m, position, bytes, 1)

\* the capacity computed with a subtraction that saturates at zero: a start
\* beyond the length finds no room and the whole input is appended
split_copy_body_saturating(m, start, bytes) ==
    LET input_len == Len(bytes)
        capacity == IF Len(m.out) >= start THEN Len(m.out) - start ELSE 0
        first_half == Min(capacity, input_len)
        m1 == IF first_half > 0
              THEN vec_copy_from_slice(m, start, SubSeq(bytes, 1, first_half))
              ELSE m
    IN  IF m.status # "ok" THEN m
        ELSE IF first_half < input_len
             THEN vec_extend_from_slice(m1, SubSeq(bytes, first_half + 1, input_len))
             ELSE m1

\* output.len() - start_position in usize: traps on underflow in a build with
\* overflow checks and wraps otherwise; a wrapped difference is far above
\* every length of the model, so cmp::min returns the other operand.
split_copy_body(m, start, bytes) ==
    LET input_len == Len(bytes)
        underflow == start > Len(m.out)
        first_half == IF underflow THEN input_len
                      ELSE Min(Len(m.out) - start, input_len)
        m1 == IF first_half > 0
              THEN vec_copy_from_slice(m, start, SubSeq(bytes, 1, first_half))
              ELSE m
    IN  IF m.status # "ok" THEN m
        ELSE IF underflow /\ overflow_checks THEN Panic(m)
        ELSE IF first_half < input_len
             THEN vec_extend_from_slice(m1, SubSeq(bytes, first_half + 1, input_len))
             ELSE m1

write_slice_to_vec(m, start, bytes) == split_copy_body(m, start, bytes)

write_slice_to_vec_cold(m, start, bytes) == split_copy_body(m, start, bytes)

write_slice_to_vec_skewed(m, start, bytes) ==
    IF m.status # "ok" THEN m
    ELSE IF start = Len(m.out) THEN vec_extend_from_slice(m, bytes)
    ELSE write_slice_to_vec_cold(m, start, bytes)

write_to_vec(m, position, byte) ==
    IF position = Len(m.out) THEN vec_push(m, byte)
                             ELSE vec_store(m, position, byte)

\* ------------------------------------------------------- integer types
PointerWidth == 64

UnsignedTypes == {"u8", "u16", "u32", "u64", "u128", "usize"}
SignedTypes == {"i8", "i16", "i32", "i64", "i128", "isize"}
Leb128Types == {"u16", "u32", "u64", "u128", "usize"}
LesqliteTypes == {"u32", "usize"}

\* the width of a type in bits
Bits(t) ==
    CASE t \in {"u8", "i8"} -> 8
      [] t \in {"u16", "i16"} -> 16
      [] t \in {"u32", "i32"} -> 32
      [] t \in {"u64", "i64"} -> 64
      [] t \in {"u128", "i128"} -> 128
      [] t \in {"usize", "isize"} -> PointerWidth

\* ::std::mem::size_of::<T>()
size_of(t) == Bits(t) \div 8

\* the outcome of a call: the machine and the returned count
Returned(m, n) ==
    [out |-> m.out, log |-> m.log, status |-> m.status,
     ret |-> IF m.status = "ok" THEN n ELSE 0]

NotCalled == [out |-> <<>>, log |-> <<>>, status |-> "none", ret |-> 0]

\* ------------------------------------------ uncompressed, little-endian
\* x.to_le() viewed as size_of::<T>() bytes
to_le_bytes(x, n) == [i \in 1..n |-> ByteAt(x, 8 * (i - 1))]

\* the $push argument of the macro, by the name of the writer
PushFn(push, m, start, bytes) ==
    CASE push = "write_to_vec_solo" -> write_to_vec_solo(m, start, bytes)
      [] push = "write_slice_to_vec" -> write_slice_to_vec(m, start, bytes)
      [] push = "write_slice_to_vec_skewed" -> write_slice_to_vec_skewed(m, start, bytes)

impl_write_raw(push, out, start, t, x) ==
    Returned(PushFn(push, Machine(out), start, to_le_bytes(x, size_of(t))),
             size_of(t))

RECURSIVE impl_write_shift_loop(_, _, _, _, _)
impl_write_shift_loop(m, start, t, x, i) ==
    IF i >= size_of(t) \/ m.status # "ok" THEN m
    ELSE impl_write_shift_loop(write_to_vec(m, start + i, ByteAt(x, i * 8)),
                               start, t, x, i + 1)

impl_write_shift(out, start, t, x) ==
    Returned(impl_write_shift_loop(Machine(out), start, t, x, 0), size_of(t))

\* ------------------------------------- reference implementation of leb128
RECURSIVE impl_write_unsigned_leb128a_loop(_, _, _, _)
impl_write_unsigned_leb128a_loop(m, start, position, v) ==
    LET byte == ByteAt(v, 0) % 128
        rest == Shr(v, 7)
        put(b) == IF position = Len(m.out) THEN vec_push(m, b)
                                           ELSE vec_store(m, position, b)
    IN  IF m.status # "ok" THEN Returned(m, 0)
        ELSE IF rest = {} THEN Returned(put(byte), (1 + position) - start)
        ELSE impl_write_unsigned_leb128a_loop(put(byte + 128), start,
                                              position + 1, rest)

\* the count taken before the last byte is counted
impl_write_unsigned_leb128a_miscount(out, start, t, v) ==
    LET r == impl_write_unsigned_leb128a_loop(Machine(out), start, start, v)
    IN  [r EXCEPT !.ret = IF r.ret > 1 THEN r.ret - 1 ELSE r.ret]

impl_write_unsigned_leb128a(out, start, t, v) ==
    impl_write_unsigned_leb128a_loop(Machine(out), start, start, v)

\* ------------------------------------- leb128 with fixed iteration counts
USIZE_LEB128_SIZE == IF PointerWidth = 32 THEN 5 ELSE 10

\* bits / 7 rounded down instead of up
leb128_size_floor(t) == Bits(t) \div 7

leb128_size(t) ==
    CASE t = "u16" -> 3
      [] t = "u32" -> 5
      [] t = "u64" -> 10
      [] t = "u128" -> 19
      [] t = "usize" -> USIZE_LEB128_SIZE

RECURSIVE impl_write_unsigned_leb128b_loop(_, _, _, _, _)
\* the loop writes at `position`, which starts at 0: start_position is unused
impl_write_unsigned_leb128b_loop(m, t, position, v, i) ==
    LET rest == Shr(v, 7)
        byte == (ByteAt(v, 0) % 128) + (IF rest # {} THEN 128 ELSE 0)
        m1 == write_to_vec(m, position, byte)
    IN  IF i >= leb128_size(t) \/ m.status # "ok" THEN Returned(m, position)
        ELSE IF rest = {} THEN Returned(m1, position + 1)
        ELSE impl_write_unsigned_leb128b_loop(m1, t, position + 1, rest, i + 1)

impl_write_unsigned_leb128b(out, start, t, v) ==
    impl_write_unsigned_leb128b_loop(Machine(out), t, 0, v, 0)

\* ------------------------------ leb128 implementation of the Rust compiler
RECURSIVE write_unsigned_leb128_to_bytes_early_test(_)
\* the continuation bit decided by the value before the shift
write_unsigned_leb128_to_bytes_early_test(v) ==
    LET rest == Shr(v, 7)
        byte == (ByteAt(v, 0) % 128) + (IF v # {} THEN 128 ELSE 0)
    IN  IF rest = {} THEN <<byte>>
        ELSE <<byte>> \o write_unsigned_leb128_to_bytes_early_test(rest)

RECURSIVE write_unsigned_leb128_to_bytes(_)
\* the bytes write_unsigned_leb128_to hands to its callback, in call order:
\* the k-th byte is handed over as write(k, byte), and the count is returned
write_unsigned_leb128_to_bytes(v) ==
    LET rest == Shr(v, 7)
        byte == (ByteAt(v, 0) % 128) + (IF rest # {} THEN 128 ELSE 0)
    IN  IF rest = {} THEN <<byte>>
        ELSE <<byte>> \o write_unsigned_leb128_to_bytes(rest)

RECURSIVE write_unsigned_leb128_to(_, _, _, _)
\* the callback of impl_write_unsigned_leb128c applied to each call:
\* |i, v| write_to_vec(out, start_position + i, v)
write_unsigned_leb128_to(m, start, calls, position) ==
    IF position >= Len(calls) THEN Returned(m, position)
    ELSE write_unsigned_leb128_to(
             write_to_vec(m, start + position, calls[position + 1]),
             start, calls, position + 1)

impl_write_unsigned_leb128c(out, start, t, v) ==
    write_unsigned_leb128_to(Machine(out), start,
                             write_unsigned_leb128_to_bytes(v), 0)

\* --------------------------- unsafe leb128 without bounds checks (d)
\* The allocation behind the vector: `mem` holds the initialised bytes and,
\* after them, the spare capacity (Uninit cells); `len` is the logical length.
Uninit == 0 - 1

\* out.reserve(additional): the capacity becomes at least len + additional.
\* The vector arrives with no spare capacity, the least the call may assume.
vec_reserve(m, additional) ==
    [mem |-> m.out \o [i \in 1..additional |-> Uninit],
     len |-> Len(m.out),
     log |-> Append(m.log, Event("reserve", Len(m.out), additional)),
     status |-> m.status]

\* *out.get_unchecked_mut(position) = byte: outside the allocation the write
\* is undefined behaviour
vec_store_unchecked(a, position, byte) ==
    IF a.status # "ok" THEN a
    ELSE IF position >= Len(a.mem) THEN [a EXCEPT !.status = "ub"]
    ELSE [a EXCEPT !.mem = [a.mem EXCEPT ![position + 1] = byte],
                   !.log = Append(a.log, Event("store_unchecked", position, byte))]

\* out.set_len(new_len)
vec_set_len(a, new_len) ==
    IF a.status # "ok" THEN a
    ELSE [a EXCEPT !.len = new_len,
                   !.log = Append(a.log, Event("set_len", a.len, new_len))]

\* the vector seen through its logical length
AsMachine(a) ==
    [out |-> SubSeq(a.mem, 1, a.len), log |-> a.log, status |-> a.status]

\* the bytes overwritten are not taken off the bytes written
saturating_sub_nothing(a, b) == a

\* bytes_written.saturating_sub(bytes_overwritten)
saturating_sub(a, b) == IF a >= b THEN a - b ELSE 0

RECURSIVE impl_write_unsigned_leb128d_loop(_, _, _, _, _)
\* the for loop: the allocation and the position after it
impl_write_unsigned_leb128d_loop(a, t, position, v, i) ==
    LET rest == Shr(v, 7)
        byte == (ByteAt(v, 0) % 128) + (IF rest # {} THEN 128 ELSE 0)
        a1 == vec_store_unchecked(a, position, byte)
    IN  IF i >= leb128_size(t) \/ a.status # "ok" THEN <<a, position>>
        ELSE IF rest = {} THEN <<a1, position + 1>>
        ELSE impl_write_unsigned_leb128d_loop(a1, t, position + 1, rest, i + 1)

\* the loop runs on the vector as it arrived, the reservation comes after it
impl_write_unsigned_leb128d_late_reserve(out, start, t, v) ==
    LET a0 == [mem |-> out, len |-> Len(out), log |-> <<>>, status |-> "ok"]
        after == impl_write_unsigned_leb128d_loop(a0, t, start, v, 0)
        a1 == after[1]
        a2 == [a1 EXCEPT !.log = Append(a1.log,
                                  Event("reserve", a1.len, leb128_size(t)))]
        bytes_written == after[2] - start
    IN  Returned(AsMachine(vec_set_len(a2, Max(a2.len, start + bytes_written))),
                 bytes_written)

\* the logical length is never advanced
impl_write_unsigned_leb128d_no_set_len(out, start, t, v) ==
    LET a0 == vec_reserve(Machine(out), leb128_size(t))
        after == impl_write_unsigned_leb128d_loop(a0, t, start, v, 0)
    IN  Returned(AsMachine(after[1]), after[2] - start)

impl_write_unsigned_leb128d(out, start, t, v) ==
    LET a0 == vec_reserve(Machine(out), leb128_size(t))
        after == impl_write_unsigned_leb128d_loop(a0, t, start, v, 0)
        a1 == after[1]
        bytes_written == after[2] - start
        initial_len == a1.len
        bytes_overwritten == initial_len - start
        additional_bytes == saturating_sub(bytes_written, bytes_overwritten)
        a2 == IF start = initial_len
              THEN vec_set_len(a1, initial_len + bytes_written)
              ELSE IF additional_bytes > 0
                   THEN vec_set_len(a1, initial_len + additional_bytes)
                   ELSE a1
    IN  Returned(AsMachine(a2), bytes_written)

\* ------------------------------------------------------------- lesqlite
CUT1 == 185
CUT2 == 249

\* a + b in u8: traps in a build with overflow checks, wraps otherwise
u8_add(m, a, b) ==
    IF a + b > 255 /\ overflow_checks THEN <<Panic(m), 0>>
    ELSE <<m, (a + b) % 256>>

\* v < n and v <= n for a bit set v and a number n below 2^30
Lt(v, n) == BitLength(v) <= 30 /\ BitsNat(v) < n
Le(v, n) == BitLength(v) <= 30 /\ BitsNat(v) <= n

\* the two-byte range ends one value early
impl_write_unsigned_lesqlite_cut(out, start, t, v) ==
    LET m == Machine(out)
    IN  IF Lt(v, CUT1)
        THEN Returned(write_to_vec(m, start, ByteAt(v, 0)), 1)
        ELSE IF Lt(v, CUT1 + 255 + 256 * (CUT2 - 1 - CUT1))
        THEN LET w == NatBits(BitsNat(v) - CUT1)
                 first == u8_add(m, CUT1, ByteAt(w, 8))
                 m1 == write_to_vec(first[1], start, first[2])
                 m2 == write_to_vec(m1, start + 1, ByteAt(w, 0))
             IN  Returned(m2, 2)
        ELSE LET bits == BitLength(v)
                 bytes == (bits + 7) \div 8
                 tag == u8_add(m, CUT2, (bytes - 2) % 256)
                 m1 == write_to_vec(tag[1], start, tag[2])
                 m2 == write_slice_to_vec_skewed(m1, start + 1, to_le_bytes(v, bytes))
             IN  Returned(m2, bytes + 1)

\* the tag computed from the byte count without the offset of two
impl_write_unsigned_lesqlite_tag(out, start, t, v) ==
    LET m == Machine(out)
    IN  IF Lt(v, CUT1)
        THEN Returned(write_to_vec(m, start, ByteAt(v, 0)), 1)
        ELSE IF Le(v, CUT1 + 255 + 256 * (CUT2 - 1 - CUT1))
        THEN LET w == NatBits(BitsNat(v) - CUT1)
                 first == u8_add(m, CUT1, ByteAt(w, 8))
                 m1 == write_to_vec(first[1], start, first[2])
                 m2 == write_to_vec(m1, start + 1, ByteAt(w, 0))
             IN  Returned(m2, 2)
        ELSE LET bits == BitLength(v)
                 bytes == (bits + 7) \div 8
                 tag == u8_add(m, CUT2, bytes % 256)
                 m1 == write_to_vec(tag[1], start, tag[2])
                 m2 == write_slice_to_vec_skewed(m1, start + 1, to_le_bytes(v, bytes))
             IN  Returned(m2, bytes + 1)

impl_write_unsigned_lesqlite(out, start, t, v) ==
    LET m == Machine(out)
    IN  IF Lt(v, CUT1)
        THEN Returned(write_to_vec(m, start, ByteAt(v, 0)), 1)
        ELSE IF Le(v, CUT1 + 255 + 256 * (CUT2 - 1 - CUT1))
        THEN LET w == NatBits(BitsNat(v) - CUT1)
                 first == u8_add(m, CUT1, ByteAt(w, 8))
                 m1 == write_to_vec(first[1], start, first[2])
                 m2 == write_to_vec(m1, start + 1, ByteAt(w, 0))
             IN  Returned(m2, 2)
        ELSE LET bits == BitLength(v)
                 bytes == (bits + 7) \div 8
                 tag == u8_add(m, CUT2, (bytes - 2) % 256)
                 m1 == write_to_vec(tag[1], start, tag[2])
                 m2 == write_slice_to_vec_skewed(m1, start + 1, to_le_bytes(v, bytes))
             IN  Returned(m2, bytes + 1)

\* ------------------------------------------------------ leb128 decoders
\* The outcome of a decoder call: the value, the count of bytes read, the
\* indices of the slice it read, and how it ended.
Decoded(st, v, n, r) == [status |-> st, val |-> v, read |-> n, reads |-> r]

NotDecoded == Decoded("none", {}, 0, <<>>)

\* result | (((byte & 0x7F) as T) << shift) for T of w bits.  A shift of w or
\* more traps in a build with overflow checks and is masked otherwise.
or_group(result, byte, shift, w) ==
    result \cup Shl(ByteBits[byte % 128], shift % w, w)

shift_overflows(shift, w) == shift >= w /\ overflow_checks

RECURSIVE read_unsigned_leb128_ref_loop(_, _, _, _, _, _)
read_unsigned_leb128_ref_loop(data, start, result, shift, position, reads) ==
    IF position >= Len(data) THEN Decoded("panic", result, 0, reads)
    ELSE IF shift_overflows(shift, 128) THEN Decoded("panic", result, 0, reads)
    ELSE LET byte == data[position + 1]
             result1 == or_group(result, byte, shift, 128)
             reads1 == Append(reads, position)
         IN  IF byte < 128
             THEN Decoded("ok", result1, (position + 1) - start, reads1)
             ELSE read_unsigned_leb128_ref_loop(data, start, result1, shift + 7,
                                                position + 1, reads1)

read_unsigned_leb128_ref(data, start) ==
    read_unsigned_leb128_ref_loop(data, start, {}, 0, start, <<>>)

impl_read_unsigned_leb128_ref(data, start, t) ==
    LET r == read_unsigned_leb128_ref(data, start)
    IN  [r EXCEPT !.val = Truncate(r.val, Bits(t))]

RECURSIVE impl_read_unsigned_leb128_fixed_loop(_, _, _, _, _, _, _, _)
impl_read_unsigned_leb128_fixed_loop(data, start, t, result, shift, position, reads, i) ==
    IF i >= leb128_size(t)
    THEN Decoded("ok", Truncate(result, Bits(t)), position - start, reads)
    ELSE IF position >= Len(data) THEN Decoded("panic", result, 0, reads)
    ELSE LET byte == data[position + 1]
             result1 == or_group(result, byte, shift, 128)
             reads1 == Append(reads, position)
         IN  IF byte < 128
             THEN Decoded("ok", Truncate(result1, Bits(t)), (position + 1) - start, reads1)
             ELSE impl_read_unsigned_leb128_fixed_loop(data, start, t, result1,
                      shift + 7, position + 1, reads1, i + 1)

impl_read_unsigned_leb128_fixed(data, start, t) ==
    impl_read_unsigned_leb128_fixed_loop(data, start, t, {}, 0, start, <<>>, 0)

RECURSIVE impl_read_unsigned_leb128_fixed2_loop(_, _, _, _, _, _, _, _)
impl_read_unsigned_leb128_fixed2_loop(data, start, t, result, shift, position, reads, i) ==
    IF i >= leb128_size(t) THEN Decoded("ok", result, position - start, reads)
    ELSE IF position >= Len(data) THEN Decoded("panic", result, 0, reads)
    ELSE IF shift_overflows(shift, Bits(t)) THEN Decoded("panic", result, 0, reads)
    ELSE LET byte == data[position + 1]
             result1 == or_group(result, byte, shift, Bits(t))
             reads1 == Append(reads, position)
         IN  IF byte < 128
             THEN Decoded("ok", result1, (position + 1) - start, reads1)
             ELSE impl_read_unsigned_leb128_fixed2_loop(data, start, t, result1,
                      shift + 7, position + 1, reads1, i + 1)

impl_read_unsigned_leb128_fixed2(data, start, t) ==
    impl_read_unsigned_leb128_fixed2_loop(data, start, t, {}, 0, start, <<>>, 0)

\* assert!(position <= data.len()) and the returned pair
assert_position(data, start, result, position, reads) ==
    IF position <= Len(data) THEN Decoded("ok", result, position - start, reads)
    ELSE Decoded("panic", result, 0, reads)

RECURSIVE impl_read_unsigned_leb128_unsafe_loop_no_break(_, _, _, _, _, _, _, _)
\* the loop without its break: every call reads leb128_size!(T) bytes
impl_read_unsigned_leb128_unsafe_loop_no_break(data, start, t, result, shift, position, reads, i) ==
    IF i >= leb128_size(t) THEN assert_position(data, start, result, position, reads)
    ELSE IF position >= Len(data) THEN Decoded("ub", result, 0, Append(reads, position))
    ELSE IF shift_overflows(shift, Bits(t)) THEN Decoded("panic", result, 0, reads)
    ELSE impl_read_unsigned_leb128_unsafe_loop_no_break(data, start, t,
             or_group(result, data[position + 1], shift, Bits(t)),
             shift + 7, position + 1, Append(reads, position), i + 1)

RECURSIVE impl_read_unsigned_leb128_unsafe_loop(_, _, _, _, _, _, _, _)
\* *data.get_unchecked(position) outside the slice is undefined behaviour
impl_read_unsigned_leb128_unsafe_loop(data, start, t, result, shift, position, reads, i) ==
    IF i >= leb128_size(t) THEN assert_position(data, start, result, position, reads)
    ELSE IF position >= Len(data) THEN Decoded("ub", result, 0, Append(reads, position))
    ELSE IF shift_overflows(shift, Bits(t)) THEN Decoded("panic", result, 0, reads)
    ELSE LET byte == data[position + 1]
             result1 == or_group(result, byte, shift, Bits(t))
             reads1 == Append(reads, position)
         IN  IF byte < 128
             THEN assert_position(data, start, result1, position + 1, reads1)
             ELSE impl_read_unsigned_leb128_unsafe_loop(data, start, t, result1,
                      shift + 7, position + 1, reads1, i + 1)

impl_read_unsigned_leb128_unsafe(data, start, t) ==
    impl_read_unsigned_leb128_unsafe_loop(data, start, t, {}, 0, start, <<>>, 0)

RECURSIVE impl_read_unsigned_leb128_weird_loop_shift(_, _, _, _, _, _, _, _)
\* the shift advances on every iteration, also after the last byte
impl_read_unsigned_leb128_weird_loop_shift(data, start, t, result, shift, position, reads, i) ==
    IF i >= leb128_size(t)
    THEN assert_position(data, start, result, position + 1, reads)
    ELSE IF position >= Len(data) THEN Decoded("ub", result, 0, Append(reads, position))
    ELSE LET byte == data[position + 1]
             mult == byte \div 128
         IN  impl_read_unsigned_leb128_weird_loop_shift(data, start, t,
                 or_group(result, byte, shift, Bits(t)), shift + 7,
                 position + mult, Append(reads, position), i + 1)

RECURSIVE impl_read_unsigned_leb128_weird_loop(_, _, _, _, _, _, _, _)
\* every iteration runs: a byte without the continuation bit leaves position
\* and shift alone, so the following iterations read that byte again
impl_read_unsigned_leb128_weird_loop(data, start, t, result, shift, position, reads, i) ==
    IF i >= leb128_size(t)
    THEN assert_position(data, start, result, position + 1, reads)
    ELSE IF position >= Len(data) THEN Decoded("ub", result, 0, Append(reads, position))
    ELSE IF shift_overflows(shift, Bits(t)) THEN Decoded("panic", result, 0, reads)
    ELSE LET byte == data[position + 1]
             mult == byte \div 128
         IN  impl_read_unsigned_leb128_weird_loop(data, start, t,
                 or_group(result, byte, shift, Bits(t)), shift + 7 * mult,
                 position + mult, Append(reads, position), i + 1)

impl_read_unsigned_leb128_weird(data, start, t) ==
    impl_read_unsigned_leb128_weird_loop(data, start, t, {}, 0, start, <<>>, 0)

\* ================================================================ inputs
\* Values of a type: small numbers around the cut points of the encodings,
\* and for each group boundary k the values 2^k - 1 and 2^(k-1).
SmallNats == {0, 1, 127, 128, 184, 185, 300, 16383, 16384, 16568, 16569}

GroupEdges(t) == {k \in 1..Bits(t) : k % 7 \in {0, 1} \/ k = Bits(t)}

Values(t) ==
    {Truncate(NatBits(n), Bits(t)) : n \in SmallNats}
        \cup {0..(k - 1) : k \in GroupEdges(t)}
        \cup {{k - 1} : k \in GroupEdges(t)}

\* the bytes a vector holds before a call: distinct, continuation bit set
Filler(i) == 160 + i
Vecs == {[i \in 1..n |-> Filler(i)] : n \in 0..MaxVecLen}

\* the slices handed to the slice writers
InputByte(i) == 16 + i
Inputs == {[i \in 1..n |-> InputByte(i)] : n \in 0..MaxInputLen}

\* the variables of the benchmark loops, in a scenario without one
NoBench ==
    /\ fun = Unused /\ variant = Unused
    /\ output = <<>> /\ bench_position = 0 /\ test_data = <<>>
NoRead == encoded = <<>> /\ dres = <<>>

\* ============================================== positioned buffer writers
SliceWriterOps == {"write_to_vec_solo", "write_slice_to_vec",
                   "write_slice_to_vec_skewed"}

WriterOps == SliceWriterOps \cup {"write_to_vec"}

InitWriter ==
    /\ vec \in Vecs
    /\ start_position \in 0..(Len(vec) + 1)
    /\ input \in Inputs
    /\ overflow_checks \in BOOLEAN
    /\ res = [w \in WriterOps |-> NotCalled]
    /\ ty = Unused
    /\ value = {}
    /\ NoBench
    /\ NoRead

Called(op) == res[op].status # "none"

Record(op, r) ==
    /\ ~Called(op)
    /\ res' = [res EXCEPT ![op] = r]
    /\ UNCHANGED <<callVars, benchVars, readVars>>

call_write_to_vec_solo ==
    Record("write_to_vec_solo",
           Returned(write_to_vec_solo(Machine(vec), start_position, input), 0))

call_write_slice_to_vec ==
    Record("write_slice_to_vec",
           Returned(write_slice_to_vec(Machine(vec), start_position, input), 0))

call_write_slice_to_vec_skewed ==
    Record("write_slice_to_vec_skewed",
           Returned(write_slice_to_vec_skewed(Machine(vec), start_position, input), 0))

call_write_to_vec ==
    /\ Len(input) >= 1
    /\ Record("write_to_vec",
              Returned(write_to_vec(Machine(vec), start_position, input[1]), 0))

NextWriter ==
    \/ call_write_to_vec_solo
    \/ call_write_slice_to_vec
    \/ call_write_slice_to_vec_skewed
    \/ call_write_to_vec

SpecWriter == InitWriter /\ [][NextWriter]_vars

\* ======================================================= leb128 encoders
EncoderOps == {"write_leb128a", "write_leb128b_solo", "write_leb128c",
               "write_leb128d"}

\* write_leb128a_T, write_leb128b_T_solo, write_leb128c_T, write_leb128d_T
Encoder(f, out, start, t, v) ==
    CASE f = "write_leb128a" -> impl_write_unsigned_leb128a(out, start, t, v)
      [] f = "write_leb128b_solo" -> impl_write_unsigned_leb128b(out, start, t, v)
      [] f = "write_leb128c" -> impl_write_unsigned_leb128c(out, start, t, v)
      [] f = "write_leb128d" -> impl_write_unsigned_leb128d(out, start, t, v)

InitEnc ==
    /\ ty \in Leb128Types
    /\ value \in Values(ty)
    /\ vec \in Vecs
    /\ start_position \in 0..Len(vec)
    /\ input = <<>>
    /\ overflow_checks = FALSE
    /\ res = [f \in EncoderOps |-> NotCalled]
    /\ NoBench
    /\ NoRead

write_leb128a ==
    Record("write_leb128a", Encoder("write_leb128a", vec, start_position, ty, value))

write_leb128b_solo ==
    Record("write_leb128b_solo",
           Encoder("write_leb128b_solo", vec, start_position, ty, value))

write_leb128c ==
    Record("write_leb128c", Encoder("write_leb128c", vec, start_position, ty, value))

write_leb128d ==
    Record("write_leb128d", Encoder("write_leb128d", vec, start_position, ty, value))

NextEnc ==
    \/ write_leb128a
    \/ write_leb128b_solo
    \/ write_leb128c
    \/ write_leb128d

SpecEnc == InitEnc /\ [][NextEnc]_vars

\* ============================================================ round trip
DecoderOps == {"read_leb128_ref", "read_leb128_fixed", "read_leb128_fixed2",
               "read_leb128_unsafe", "read_leb128_weird"}

\* read_leb128_ref_T, read_leb128_fixed_T, read_leb128_fixed2_T,
\* read_leb128_unsafe_T, read_leb128_weird_T
Decoder(d, data, start, t) ==
    CASE d = "read_leb128_ref" -> impl_read_unsigned_leb128_ref(data, start, t)
      [] d = "read_leb128_fixed" -> impl_read_unsigned_leb128_fixed(data, start, t)
      [] d = "read_leb128_fixed2" -> impl_read_unsigned_leb128_fixed2(data, start, t)
      [] d = "read_leb128_unsafe" -> impl_read_unsigned_leb128_unsafe(data, start, t)
      [] d = "read_leb128_weird" -> impl_read_unsigned_leb128_weird(data, start, t)

Decoded_(d) == dres[d].status # "none"

\* one value, encoded into an empty vector at position 0 by one encoder and
\* then decoded at position 0 by one decoder
InitRoundTrip ==
    /\ ty \in Leb128Types
    /\ value \in Values(ty)
    /\ vec = <<>>
    /\ start_position = 0
    /\ input = <<>>
    /\ overflow_checks \in BOOLEAN
    /\ res = [f \in EncoderOps |-> NotCalled]
    /\ NoBench
    /\ encoded = <<>>
    /\ dres = [d \in DecoderOps |-> NotDecoded]

NothingEncoded == \A g \in EncoderOps : ~Called(g)
NothingDecoded == \A e \in DecoderOps : ~Decoded_(e)

EncodeWith(f) ==
    LET r == Encoder(f, vec, start_position, ty, value)
    IN  /\ res' = [res EXCEPT ![f] = r]
        /\ encoded' = r.out
        /\ UNCHANGED <<callVars, benchVars, dres>>

DecodeWith(d) ==
    /\ dres' = [dres EXCEPT ![d] = Decoder(d, encoded, start_position, ty)]
    /\ UNCHANGED <<callVars, benchVars, res, encoded>>

encode_leb128a == NothingEncoded /\ EncodeWith("write_leb128a")
encode_leb128b_solo == NothingEncoded /\ EncodeWith("write_leb128b_solo")
encode_leb128c == NothingEncoded /\ EncodeWith("write_leb128c")
encode_leb128d == NothingEncoded /\ EncodeWith("write_leb128d")

decode_ref == ~NothingEncoded /\ NothingDecoded /\ DecodeWith("read_leb128_ref")
decode_fixed == ~NothingEncoded /\ NothingDecoded /\ DecodeWith("read_leb128_fixed")
decode_fixed2 == ~NothingEncoded /\ NothingDecoded /\ DecodeWith("read_leb128_fixed2")
decode_unsafe == ~NothingEncoded /\ NothingDecoded /\ DecodeWith("read_leb128_unsafe")
decode_weird == ~NothingEncoded /\ NothingDecoded /\ DecodeWith("read_leb128_weird")

NextRoundTrip ==
    \/ encode_leb128a
    \/ encode_leb128b_solo
    \/ encode_leb128c
    \/ encode_leb128d
    \/ decode_ref
    \/ decode_fixed
    \/ decode_fixed2
    \/ decode_unsafe
    \/ decode_weird

SpecRoundTrip == InitRoundTrip /\ [][NextRoundTrip]_vars

\* ======================================================= leb128 decoders
\* the values whose encodings follow the encoding under test in the slice:
\* the first byte after it is 0x00 or 0xFF
TrailValues(t) == {{}, 0..(Bits(t) - 1)}

\* A slice as impl_read_bench builds it: encodings appended with
\* write_leb128c_u128, here after the bytes the slice already holds.  The
\* decoders are called where the first of the encodings begins.
InitDec ==
    /\ ty \in Leb128Types
    /\ value \in Values(ty)
    /\ encoded \in Vecs
    /\ start_position = Len(encoded)
    /\ test_data = <<>>
    /\ dres = [d \in DecoderOps |-> NotDecoded]
    /\ overflow_checks \in BOOLEAN
    /\ vec = <<>>
    /\ input = <<>>
    /\ res = <<>>
    /\ fun = Unused
    /\ variant = ty
    /\ output = <<>>
    /\ bench_position = 0

\* write_leb128c_u128(&mut encoded, pos, val as u128) with pos = encoded.len()
append_encoding ==
    /\ Len(test_data) < MaxVals
    /\ \A e \in DecoderOps : ~Decoded_(e)
    /\ \E val \in (IF test_data = <<>> THEN {value} ELSE TrailValues(ty)) :
          /\ encoded' = impl_write_unsigned_leb128c(encoded, Len(encoded), "u128", val).out
          /\ test_data' = Append(test_data, val)
    /\ UNCHANGED <<callVars, res, fun, variant, output, bench_position, dres>>

read_leb128_ref ==
    /\ test_data # <<>> /\ ~Decoded_("read_leb128_ref")
    /\ DecodeWith("read_leb128_ref")

read_leb128_fixed ==
    /\ test_data # <<>> /\ ~Decoded_("read_leb128_fixed")
    /\ DecodeWith("read_leb128_fixed")

read_leb128_fixed2 ==
    /\ test_data # <<>> /\ ~Decoded_("read_leb128_fixed2")
    /\ DecodeWith("read_leb128_fixed2")

read_leb128_unsafe ==
    /\ test_data # <<>> /\ ~Decoded_("read_leb128_unsafe")
    /\ DecodeWith("read_leb128_unsafe")

read_leb128_weird ==
    /\ test_data # <<>> /\ ~Decoded_("read_leb128_weird")
    /\ DecodeWith("read_leb128_weird")

NextDec ==
    \/ append_encoding
    \/ read_leb128_ref
    \/ read_leb128_fixed
    \/ read_leb128_fixed2
    \/ read_leb128_unsafe
    \/ read_leb128_weird

SpecDec == InitDec /\ [][NextDec]_vars

\* ==================================================== raw integer writers
RawOps == {"write_raw_solo", "write_raw_slice", "write_raw_skewed", "write_shift"}

\* the value whose i-th byte is i + 1
DistinctBytes(t) == UNION {Shl(ByteBits[i + 1], 8 * i, Bits(t)) : i \in 0..(size_of(t) - 1)}

ByteEdges(t) == {k \in 1..Bits(t) : k % 8 = 0}

RawValues(t) ==
    {Truncate(NatBits(n), Bits(t)) : n \in SmallNats}
        \cup {0..(k - 1) : k \in ByteEdges(t)}
        \cup {{k - 1} : k \in ByteEdges(t)}
        \cup {DistinctBytes(t)}

\* every function that writes one integer: write_raw_T_solo, write_raw_T_slice,
\* write_raw_T_skewed, write_shift_T, the leb128 encoders and the lesqlite
\* encoders
Call(f, out, start, t, v) ==
    CASE f \in EncoderOps -> Encoder(f, out, start, t, v)
      [] f = "write_raw_solo" -> impl_write_raw("write_to_vec_solo", out, start, t, v)
      [] f = "write_raw_slice" -> impl_write_raw("write_slice_to_vec", out, start, t, v)
      [] f = "write_raw_skewed" ->
             impl_write_raw("write_slice_to_vec_skewed", out, start, t, v)
      [] f = "write_shift" -> impl_write_shift(out, start, t, v)
      [] f = "write_lesqlite" -> impl_write_unsigned_lesqlite(out, start, t, v)

InitRaw ==
    /\ ty \in UnsignedTypes \cup SignedTypes
    /\ value \in RawValues(ty)
    /\ vec \in Vecs
    /\ start_position \in 0..Len(vec)
    /\ input = <<>>
    /\ overflow_checks = FALSE
    /\ res = [f \in RawOps |-> NotCalled]
    /\ NoBench
    /\ NoRead

write_raw_solo ==
    Record("write_raw_solo", Call("write_raw_solo", vec, start_position, ty, value))

write_raw_slice ==
    Record("write_raw_slice", Call("write_raw_slice", vec, start_position, ty, value))

write_raw_skewed ==
    Record("write_raw_skewed", Call("write_raw_skewed", vec, start_position, ty, value))

\* impl_write_shift is instantiated for the unsigned types only
write_shift ==
    /\ ty \in UnsignedTypes
    /\ Record("write_shift", Call("write_shift", vec, start_position, ty, value))

NextRaw ==
    \/ write_raw_solo
    \/ write_raw_slice
    \/ write_raw_skewed
    \/ write_shift

SpecRaw == InitRaw /\ [][NextRaw]_vars

\* ============================================================== lesqlite
\* numbers around the two cut points, and a sample of the two-byte range
LesqliteNats ==
    {n \in 0..16700 : n < 260 \/ (n >= 16500 /\ n <= 16640) \/ n % 509 = 0}

LesqliteValues(t) ==
    {NatBits(n) : n \in LesqliteNats}
        \cup {0..(k - 1) : k \in {j \in ByteEdges(t) : j > 8}}
        \cup {{k - 1} : k \in {j \in ByteEdges(t) : j > 8}}
        \cup {{k} : k \in {j \in ByteEdges(t) : j < Bits(t)}}

InitLesqlite ==
    /\ ty \in LesqliteTypes
    /\ value \in LesqliteValues(ty)
    /\ vec \in Vecs
    /\ start_position \in 0..Len(vec)
    /\ input = <<>>
    /\ overflow_checks \in BOOLEAN
    /\ res = [f \in {"write_lesqlite"} |-> NotCalled]
    /\ NoBench
    /\ NoRead

\* impl_write_u32_lesqlite, impl_write_usize_lesqlite
write_lesqlite ==
    Record("write_lesqlite", Call("write_lesqlite", vec, start_position, ty, value))

NextLesqlite == write_lesqlite

SpecLesqlite == InitLesqlite /\ [][NextLesqlite]_vars

\* ============================================================ impl_bench
BenchFuns == RawOps \cup EncoderOps \cup {"write_lesqlite"}

\* the types each function is benchmarked with
BenchTypes(f) ==
    CASE f \in RawOps -> {"u8", "u16", "u32", "u64", "usize"}
      [] f \in EncoderOps -> {"u16", "u32", "u64", "usize"}
      [] f = "write_lesqlite" -> {"usize", "u32"}

BenchValues(t) ==
    {{}, Truncate(NatBits(128), Bits(t)), Truncate(NatBits(300), Bits(t)),
     0..(Bits(t) - 1)}

InitBench ==
    /\ fun \in BenchFuns
    /\ ty \in BenchTypes(fun)
    /\ variant = ty
    /\ output = <<>>
    /\ bench_position = 0
    /\ test_data = <<>>
    /\ res = NotCalled
    /\ overflow_checks = FALSE
    /\ value = {}
    /\ vec = <<>>
    /\ start_position = 0
    /\ input = <<>>
    /\ NoRead

\* one iteration of the loop: position += $fun(&mut output, position, val)
BenchStep ==
    /\ Len(test_data) < MaxVals
    /\ res.status # "panic"
    /\ \E val \in BenchValues(ty) :
          LET r == Call(fun, output, bench_position, ty, val)
          IN  /\ res' = r
              /\ output' = r.out
              /\ bench_position' = bench_position + r.ret
              /\ test_data' = Append(test_data, val)
    /\ UNCHANGED <<callVars, fun, variant, readVars>>

bench_write_raw_solo == fun = "write_raw_solo" /\ BenchStep
bench_write_raw_slice == fun = "write_raw_slice" /\ BenchStep
bench_write_raw_skewed == fun = "write_raw_skewed" /\ BenchStep
bench_write_shift == fun = "write_shift" /\ BenchStep
bench_write_leb128a == fun = "write_leb128a" /\ BenchStep
bench_write_leb128b_solo == fun = "write_leb128b_solo" /\ BenchStep
bench_write_leb128c == fun = "write_leb128c" /\ BenchStep
bench_write_leb128d == fun = "write_leb128d" /\ BenchStep
bench_write_lesqlite == fun = "write_lesqlite" /\ BenchStep

NextBench ==
    \/ bench_write_raw_solo
    \/ bench_write_raw_slice
    \/ bench_write_raw_skewed
    \/ bench_write_shift
    \/ bench_write_leb128a
    \/ bench_write_leb128b_solo
    \/ bench_write_leb128c
    \/ bench_write_leb128d
    \/ bench_write_lesqlite

SpecBench == InitBench /\ [][NextBench]_vars

\* =================================================== append and overwrite
AllOps == WriterOps \cup BenchFuns

\* a writer called with the bytes, or an integer writer with the value; the
\* count is the length of what was to be written
CallAny(f, out, start, t, v, bytes) ==
    CASE f \in SliceWriterOps ->
             Returned(PushFn(f, Machine(out), start, bytes), Len(bytes))
      [] f = "write_to_vec" ->
             Returned(write_to_vec(Machine(out), start, bytes[1]), 1)
      [] OTHER -> Call(f, out, start, t, v)

\* One operation and one value, written twice at position == Len(vec): once
\* appending to vec, once over bytes that vec was extended with beforehand.
InitOverwrite ==
    /\ fun \in AllOps
    /\ IF fun \in WriterOps
       THEN /\ ty = Unused
            /\ value = {}
            /\ input \in {b \in Inputs : Len(b) >= 1}
       ELSE /\ ty \in BenchTypes(fun)
            /\ value \in BenchValues(ty)
            /\ input = <<>>
    /\ vec \in Vecs
    /\ start_position = Len(vec)
    /\ overflow_checks = FALSE
    /\ res = [w \in {"append", "overwrite"} |-> NotCalled]
    /\ variant = Unused
    /\ output = <<>>
    /\ bench_position = 0
    /\ test_data = <<>>
    /\ NoRead

write_append ==
    /\ ~Called("append")
    /\ res' = [res EXCEPT !["append"] =
                  CallAny(fun, vec, start_position, ty, value, input)]
    /\ UNCHANGED <<callVars, benchVars, readVars>>

write_overwrite ==
    /\ res["append"].status = "ok"
    /\ ~Called("overwrite")
    /\ LET n == res["append"].ret
           extended == vec \o [i \in 1..n |-> Filler(Len(vec) + i)]
       IN  res' = [res EXCEPT !["overwrite"] =
                      CallAny(fun, extended, start_position, ty, value, input)]
    /\ UNCHANGED <<callVars, benchVars, readVars>>

NextOverwrite ==
    \/ write_append
    \/ write_overwrite

SpecOverwrite == InitOverwrite /\ [][NextOverwrite]_vars

\* ======================================================= impl_read_bench
\* values of the test data: encodings of one, two, three or four and of the
\* greatest number of bytes of the type
ReadValues(t) ==
    {{}, 0..6, {7}, IF Bits(t) > 21 THEN {21} ELSE {14}, 0..(Bits(t) - 1)}

\* A read benchmark: $fun is the decoder `fun` of the type `ty`, the test data
\* are values of the type `variant`.  res is the sequence of the pairs the
\* calls of the read loop returned so far.
InitReadBench ==
    /\ fun \in DecoderOps
    /\ ty \in Leb128Types
    /\ variant \in Leb128Types
    /\ overflow_checks \in BOOLEAN
    /\ test_data = <<>>
    /\ encoded = <<>>
    /\ bench_position = 0
    /\ res = <<>>
    /\ dres = <<>>
    /\ output = <<>>
    /\ value = {}
    /\ vec = <<>>
    /\ start_position = 0
    /\ input = <<>>

\* one iteration of the loop that encodes the test data:
\* write_leb128c_u128(&mut encoded, pos, val as u128) with pos = encoded.len()
encode_test_data ==
    /\ Len(test_data) < MaxVals
    /\ res = <<>>
    /\ \E val \in ReadValues(variant) :
          /\ encoded' = impl_write_unsigned_leb128c(encoded, Len(encoded), "u128", val).out
          /\ test_data' = Append(test_data, val)
    /\ UNCHANGED <<callVars, fun, variant, output, bench_position, res, dres>>

\* one iteration of a read loop that advances by one byte per call
ReadStep_fixed_stride ==
    /\ Len(res) < Len(test_data)
    /\ \A i \in 1..Len(res) : res[i].status = "ok"
    /\ LET r == Decoder(fun, encoded, bench_position, ty)
       IN  /\ res' = Append(res, r)
           /\ bench_position' = bench_position + 1
    /\ UNCHANGED <<callVars, fun, variant, output, test_data, encoded, dres>>

\* one iteration of the read loop:
\* let (val, count) = $fun(&encoded, position); position += count
ReadStep ==
    /\ Len(res) < Len(test_data)
    /\ \A i \in 1..Len(res) : res[i].status = "ok"
    /\ LET r == Decoder(fun, encoded, bench_position, ty)
       IN  /\ res' = Append(res, r)
           /\ bench_position' = bench_position + r.read
    /\ UNCHANGED <<callVars, fun, variant, output, test_data, encoded, dres>>

bench_read_leb128_ref == fun = "read_leb128_ref" /\ ReadStep
bench_read_leb128_fixed == fun = "read_leb128_fixed" /\ ReadStep
bench_read_leb128_fixed2 == fun = "read_leb128_fixed2" /\ ReadStep
bench_read_leb128_unsafe == fun = "read_leb128_unsafe" /\ ReadStep
bench_read_leb128_weird == fun = "read_leb128_weird" /\ ReadStep

NextReadBench ==
    \/ encode_test_data
    \/ bench_read_leb128_ref
    \/ bench_read_leb128_fixed
    \/ bench_read_leb128_fixed2
    \/ bench_read_leb128_unsafe
    \/ bench_read_leb128_weird

SpecReadBench == InitReadBench /\ [][NextReadBench]_vars

\* ================================== the unbounded loops, one iteration a step
\* The call in progress: the vector and the log of the writes made so far,
\* the loop's own `value` and `position`, and the returned count once the
\* loop has been left (status "ok").
Frame(m, st, n, v, p) ==
    [out |-> m.out, log |-> m.log,
     status |-> IF m.status = "ok" THEN st ELSE m.status,
     ret |-> n, value |-> v, position |-> p]

FrameMachine(fr) == [out |-> fr.out, log |-> fr.log, status |-> "ok"]

LoopOps == {"write_leb128a", "write_leb128c"}

\* write_leb128a_T: position = start_position; write_unsigned_leb128_to, called
\* by write_leb128c_T with value as u128: position = 0
InitLoop ==
    /\ fun \in LoopOps
    /\ ty \in Leb128Types
    /\ value \in Values(ty)
    /\ vec \in Vecs
    /\ start_position \in 0..Len(vec)
    /\ res = Frame(Machine(vec), "running", 0, value,
                   IF fun = "write_leb128a" THEN start_position ELSE 0)
    /\ overflow_checks \in BOOLEAN
    /\ input = <<>>
    /\ variant = Unused
    /\ output = <<>>
    /\ bench_position = 0
    /\ test_data = <<>>
    /\ NoRead

\* one iteration of the loop of write_leb128a_T that returns one iteration late
leb128a_iteration_late ==
    /\ fun = "write_leb128a"
    /\ res.status = "running"
    /\ LET byte == ByteAt(res.value, 0) % 128
           rest == Shr(res.value, 7)
           m == FrameMachine(res)
       IN  res' = IF res.value = {}
                  THEN Frame(write_to_vec(m, res.position, byte), "ok",
                             (1 + res.position) - start_position, rest,
                             res.position)
                  ELSE Frame(write_to_vec(m, res.position, byte + 128),
                             "running", 0, rest, res.position + 1)
    /\ UNCHANGED <<callVars, benchVars, readVars>>

\* one iteration of the loop of write_leb128a_T
leb128a_iteration ==
    /\ fun = "write_leb128a"
    /\ res.status = "running"
    /\ LET byte == ByteAt(res.value, 0) % 128
           rest == Shr(res.value, 7)
           m == FrameMachine(res)
           put(b) == IF res.position = Len(m.out) THEN vec_push(m, b)
                                                  ELSE vec_store(m, res.position, b)
       IN  res' = IF rest = {}
                  THEN Frame(put(byte), "ok",
                             (1 + res.position) - start_position, rest,
                             res.position)
                  ELSE Frame(put(byte + 128), "running", 0, rest,
                             res.position + 1)
    /\ UNCHANGED <<callVars, benchVars, readVars>>

\* one iteration of the loop of write_unsigned_leb128_to; its callback is
\* |i, v| write_to_vec(out, start_position + i, v)
leb128_to_iteration ==
    /\ fun = "write_leb128c"
    /\ res.status = "running"
    /\ LET rest == Shr(res.value, 7)
           byte == (ByteAt(res.value, 0) % 128) + (IF rest # {} THEN 128 ELSE 0)
           m == write_to_vec(FrameMachine(res), start_position + res.position, byte)
       IN  res' = IF rest = {}
                  THEN Frame(m, "ok", res.position + 1, rest, res.position + 1)
                  ELSE Frame(m, "running", 0, rest, res.position + 1)
    /\ UNCHANGED <<callVars, benchVars, readVars>>

NextLoop ==
    \/ leb128a_iteration
    \/ leb128_to_iteration

SpecLoop == InitLoop /\ [][NextLoop]_vars

\* a call that has started keeps running until it returns
SpecLoopFair == SpecLoop /\ WF_vars(NextLoop)

\* ============================ the loop of write_leb128b, one iteration a step
InitFixedLoop ==
    /\ fun = "write_leb128b_solo"
    /\ ty \in Leb128Types
    /\ value \in Values(ty)
    /\ vec \in Vecs
    /\ start_position \in 0..Len(vec)
    /\ res = Frame(Machine(vec), "running", 0, value, 0)
    /\ overflow_checks \in BOOLEAN
    /\ input = <<>>
    /\ variant = Unused
    /\ output = <<>>
    /\ bench_position = 0
    /\ test_data = <<>>
    /\ NoRead

\* one iteration of `for i in 0 .. leb128_size!(T)`; i equals position.  The
\* function returns position after the break or after the last iteration.
leb128b_iteration ==
    /\ fun = "write_leb128b_solo"
    /\ res.status = "running"
    /\ LET rest == Shr(res.value, 7)
           byte == (ByteAt(res.value, 0) % 128) + (IF rest # {} THEN 128 ELSE 0)
           m == write_to_vec(FrameMachine(res), res.position, byte)
           position == res.position + 1
       IN  res' = IF rest = {} \/ position >= leb128_size(ty)
                  THEN Frame(m, "ok", position, rest, position)
                  ELSE Frame(m, "running", 0, rest, position)
    /\ UNCHANGED <<callVars, benchVars, readVars>>

NextFixedLoop == leb128b_iteration

SpecFixedLoop == InitFixedLoop /\ [][NextFixedLoop]_vars

\* ================================================================ claims
\* the bytes of the vector a call wrote one at a time, in program order
ByteWrites(log) ==
    SelectSeq(log, LAMBDA e : e.op \in {"push", "store", "store_unchecked"})

Emitted(log) == [i \in 1..Len(ByteWrites(log)) |-> ByteWrites(log)[i].val]

\* what a positioned write of `bytes` at `start` must leave in the vector
PositionedWrite(v, start, bytes) ==
    [i \in 1..Max(Len(v), start + Len(bytes)) |->
        IF i > start /\ i <= start + Len(bytes) THEN bytes[i - start] ELSE v[i]]

\* C5: for a start position within the vector, each of the three slice
\* writers completes and leaves the input at [start, start+len), every other
\* byte unchanged and the length max(old length, start+len).
C5_WritersEquivalent ==
    start_position <= Len(vec) =>
        \A w \in SliceWriterOps :
            Called(w) => /\ res[w].status = "ok"
                         /\ res[w].out = PositionedWrite(vec, start_position, input)

\* C2: the four encoder strategies leave the same vector and return the same
\* count, for every vector and start position within it.
C2_EncodersAgree ==
    \A f \in EncoderOps : \A g \in EncoderOps :
        (Called(f) /\ Called(g)) =>
            /\ res[f].status = "ok"
            /\ res[f].out = res[g].out
            /\ res[f].ret = res[g].ret

CeilDiv(a, b) == (a + b - 1) \div b

\* C4: every encoder returns the number of bytes it emitted, and that number
\* is max(1, ceil(bit_length(v) / 7)).
C4_ReturnedCountMinimal ==
    \A f \in EncoderOps :
        Called(f) => /\ res[f].status = "ok"
                     /\ res[f].ret = Len(ByteWrites(res[f].log))
                     /\ res[f].ret = Max(1, CeilDiv(BitLength(value), 7))

\* every strategy has encoded the largest u128 in 19 bytes
C4_Witness ==
    /\ ty = "u128"
    /\ value = 0..127
    /\ \A f \in EncoderOps : res[f].status = "ok" /\ res[f].ret = 19

\* the maximum encoded length the claim gives for each width
KnownMaxLen(t) ==
    CASE t = "u16" -> 3
      [] t = "u32" -> 5
      [] t = "u64" -> 10
      [] t = "u128" -> 19
      [] t = "usize" -> CeilDiv(PointerWidth, 7)

\* the bytes a call emitted are `bytes`, and written to an empty vector they
\* are the whole vector
Encodes(f, bytes) ==
    /\ res[f].status = "ok"
    /\ Emitted(res[f].log) = bytes
    /\ vec = <<>> => res[f].out = bytes

\* C7: known answers: 0 -> [0x00], 127 -> [0x7F], 128 -> [0x80, 0x01],
\* the u32 300 -> [0xAC, 0x02] with count 2, and the maximum of each width
\* takes 3, 5, 10 and 19 bytes.
C7_KnownAnswers ==
    \A f \in EncoderOps :
        Called(f) =>
            /\ value = {} => Encodes(f, <<0>>)
            /\ value = NatBits(127) => Encodes(f, <<127>>)
            /\ value = NatBits(128) => Encodes(f, <<128, 1>>)
            /\ (ty = "u32" /\ value = NatBits(300)) =>
                   (Encodes(f, <<172, 2>>) /\ res[f].ret = 2)
            /\ value = 0..(Bits(ty) - 1) =>
                   /\ res[f].status = "ok"
                   /\ Len(Emitted(res[f].log)) = KnownMaxLen(ty)
                   /\ res[f].ret = KnownMaxLen(ty)

\* the fixed-iteration strategy has encoded the u32 value 300
C7_Witness ==
    /\ ty = "u32"
    /\ value = NatBits(300)
    /\ res["write_leb128b_solo"].out = <<172, 2>>
    /\ res["write_leb128d"].status = "ok"

\* C1: a value encoded into an empty vector at position 0 by any encoder
\* and decoded at position 0 by any decoder comes back as (v, n), n being the
\* count the encoder returned.
C1_RoundTrip ==
    \A f \in EncoderOps : \A d \in DecoderOps :
        (Called(f) /\ Decoded_(d)) =>
            /\ res[f].status = "ok"
            /\ dres[d].status = "ok"
            /\ dres[d].val = value
            /\ dres[d].read = res[f].ret

\* the largest u64, written by the unchecked encoder, read back by the
\* branch-minimized decoder
C1_Witness ==
    /\ ty = "u64"
    /\ value = 0..63
    /\ Called("write_leb128d")
    /\ dres["read_leb128_weird"].status = "ok"
    /\ dres["read_leb128_weird"].read = 10

\* C3: where a well-formed encoding of a value of the width begins in a
\* slice that contains it, the five decoders return the same pair.
C3_DecodersAgree ==
    \A d \in DecoderOps : \A e \in DecoderOps :
        (Decoded_(d) /\ Decoded_(e)) =>
            /\ dres[d].status = "ok"
            /\ dres[d].val = dres[e].val
            /\ dres[d].read = dres[e].read

\* all five decoders have read a three-byte encoding that begins after other
\* bytes and is followed by another encoding
C3_Witness ==
    /\ start_position > 0
    /\ Len(test_data) = 2
    /\ \A d \in DecoderOps : dres[d].status = "ok" /\ dres[d].read = 3

\* C9: each raw writer returns size_of(T) and leaves the little-endian bytes
\* of x at [start, start + size_of(T)).
C9_RawLittleEndian ==
    \A f \in RawOps :
        Called(f) =>
            /\ res[f].status = "ok"
            /\ res[f].ret = size_of(ty)
            /\ \A i \in 0..(size_of(ty) - 1) :
                   res[f].out[start_position + i + 1] = ByteAt(value, 8 * i)

\* the least number of bytes that hold the significant bits of v
MinBytes(v) == CHOOSE k \in 0..16 : BitLength(v) <= 8 * k /\ BitLength(v) > 8 * (k - 1)

\* what the claim says a lesqlite encoder appends for v
LesqliteFormat(v) ==
    IF Lt(v, 185) THEN <<BitsNat(v)>>
    ELSE IF Le(v, 16568)
    THEN <<185 + ((BitsNat(v) - 185) \div 256), (BitsNat(v) - 185) % 256>>
    ELSE <<249 + (MinBytes(v) - 2)>> \o [i \in 1..MinBytes(v) |-> ByteAt(v, 8 * (i - 1))]

\* C10: appended with a lesqlite encoder, v < 185 is the byte v, v up to
\* 16568 is the biased pair, a larger v is the tag 249 + (k - 2) and its k
\* low-order bytes; the count is the number of bytes appended.
C10_LesqliteFormat ==
    (Called("write_lesqlite") /\ start_position = Len(vec)) =>
        LET r == res["write_lesqlite"]
        IN  /\ r.status = "ok"
            /\ r.out = vec \o LesqliteFormat(value)
            /\ r.ret = Len(LesqliteFormat(value))
            /\ value = NatBits(184) => r.out = vec \o <<184>>
            /\ value = NatBits(185) => r.out = vec \o <<185, 0>>
            /\ value = NatBits(16568) => r.out = vec \o <<248, 255>>
            /\ value = NatBits(16569) => r.out = vec \o <<249, 185, 64>>
            /\ r.ret = (IF Lt(value, 185) THEN 1
                        ELSE IF Le(value, 16568) THEN 2 ELSE MinBytes(value) + 1)

\* the first value of the tagged range, appended after existing bytes
C10_Witness ==
    /\ value = NatBits(16569)
    /\ vec # <<>>
    /\ start_position = Len(vec)
    /\ res["write_lesqlite"].ret = 3

RECURSIVE Concat(_)
Concat(seqs) == IF seqs = <<>> THEN <<>> ELSE Head(seqs) \o Concat(Tail(seqs))

\* the encoding of v by the function: what it writes to an empty vector
Encoding(f, t, v) == Call(f, <<>>, 0, t, v).out

\* C8: in the loop of impl_bench the position is the length of the vector
\* and the vector is the concatenation of the encodings written so far.
C8_SequentialAppend ==
    /\ bench_position = Len(output)
    /\ output = Concat([i \in 1..Len(test_data) |-> Encoding(fun, ty, test_data[i])])

\* C6: a write at position == length gives the same vector when it appends
\* and when it overwrites bytes the vector was extended with beforehand.
C6_AppendEqualsOverwrite ==
    (Called("append") /\ Called("overwrite")) =>
        /\ res["append"].status = "ok"
        /\ res["overwrite"].status = "ok"
        /\ res["append"].out = res["overwrite"].out

\* C11: a writer called with a non-empty input and a start position beyond
\* the length of the vector does not return: it panics, and the vector is as
\* it was before the call.
C11_ContractViolationTraps ==
    \A w \in WriterOps :
        (Called(w) /\ start_position > Len(vec) /\ input # <<>>) =>
            /\ res[w].status = "panic"
            /\ res[w].out = vec

\* the four writers were called one past the end of a non-empty vector, in a
\* build without overflow checks
C11_Witness ==
    /\ \A w \in WriterOps : Called(w)
    /\ vec # <<>>
    /\ start_position = Len(vec) + 1
    /\ Len(input) = 2
    /\ ~overflow_checks

\* C12: when the test data are values of the decoder's width, the calls of
\* the read loop return them in order, and after as many calls as there are
\* values the position is the length of the slice.
C12_SequentialDecode ==
    variant = ty =>
        /\ \A i \in 1..Len(res) :
              /\ res[i].status = "ok"
              /\ res[i].val = test_data[i]
        /\ (res # <<>> /\ Len(res) = Len(test_data)) =>
              bench_position = Len(encoded)

\* two values with encodings of different lengths were decoded in order
C12_Witness ==
    /\ variant = ty
    /\ Len(test_data) = 2
    /\ Len(res) = 2
    /\ test_data[1] = 0..(Bits(ty) - 1)
    /\ test_data[2] = {7}
    /\ res[2].val = {7}
    /\ bench_position = leb128_size(ty) + 2

\* C19: whatever the width of the decoder and of the encoded values, no call
\* of the read loop reads an index at or beyond the length of the slice, and
\* none ends in a failed assertion or another panic.
C19_NarrowDecodeInBounds ==
    \A i \in 1..Len(res) :
        /\ res[i].status = "ok"
        /\ \A k \in 1..Len(res[i].reads) : res[i].reads[k] < Len(encoded)

\* a u16 decoder without bounds checks was called twice on the encodings of
\* two 64-bit values, the first of ten bytes
C19_Witness ==
    /\ ty = "u16"
    /\ variant \in {"usize", "u64"}
    /\ fun \in {"read_leb128_unsafe", "read_leb128_weird"}
    /\ Len(test_data) = 2
    /\ test_data[1] = 0..63
    /\ Len(res) = 2
    /\ res[2].reads # <<>>

\* C13: in the bytes an encoder emits for a value, every byte but the last
\* has the high bit set, the last has it clear, the low seven bits of the
\* i-th byte (counted from 0) are bits 7i .. 7i+6 of the value, and the last
\* byte is zero only for the value 0.
C13_WireFormat ==
    \A f \in EncoderOps :
        Called(f) =>
            LET bytes == Emitted(res[f].log)
                n == Len(bytes)
            IN  /\ res[f].status = "ok"
                /\ n >= 1
                /\ \A i \in 1..(n - 1) : bytes[i] >= 128
                /\ bytes[n] < 128
                /\ \A i \in 1..n :
                      ByteBits[bytes[i] % 128] =
                          {k \in 0..6 : (7 * (i - 1) + k) \in value}
                /\ value # {} => bytes[n] # 0

\* every strategy has encoded 2^14, whose first two groups are zero
C13_Witness ==
    /\ value = {14}
    /\ \A f \in EncoderOps : Emitted(res[f].log) = <<128, 128, 1>>

\* C14: write_leb128d reserves leb128_size(T) bytes before its first
\* unchecked write, and every unchecked write goes to an index below the
\* capacity that the reservation guarantees (length + leb128_size(T)).
C14_ReserveBeforeUncheckedWrite ==
    Called("write_leb128d") =>
        LET log == res["write_leb128d"].log
        IN  /\ res["write_leb128d"].status = "ok"
            /\ Len(log) >= 2
            /\ log[1] = Event("reserve", Len(vec), leb128_size(ty))
            /\ \A i \in 2..Len(log) :
                  /\ log[i].op # "reserve"
                  /\ log[i].op = "store_unchecked" =>
                        log[i].at < Len(vec) + leb128_size(ty)

\* an encoding of the greatest length was appended: its last byte went to
\* the last reserved index
C14_Witness ==
    /\ Called("write_leb128d")
    /\ vec # <<>>
    /\ start_position = Len(vec)
    /\ \E i \in 1..Len(res["write_leb128d"].log) :
          /\ res["write_leb128d"].log[i].op = "store_unchecked"
          /\ res["write_leb128d"].log[i].at = Len(vec) + leb128_size(ty) - 1

\* the set_len calls of a log
SetLens(log) == SelectSeq(log, LAMBDA e : e.op = "set_len")

\* C15: write_leb128d ends with the length max(initial length, start +
\* bytes written); it sets the length only when start + bytes written exceeds
\* the initial length, and then to a greater one.
C15_LengthAfterUnchecked ==
    Called("write_leb128d") =>
        LET r == res["write_leb128d"]
            sets == SetLens(r.log)
        IN  /\ r.status = "ok"
            /\ Len(r.out) = Max(Len(vec), start_position + r.ret)
            /\ Len(sets) = (IF start_position + r.ret > Len(vec) THEN 1 ELSE 0)
            /\ \A i \in 1..Len(sets) :
                  /\ sets[i].at = Len(vec)
                  /\ sets[i].val > sets[i].at

\* a three-byte encoding written over the last byte of a two-byte vector
C15_Witness ==
    /\ Called("write_leb128d")
    /\ Len(vec) = 2
    /\ start_position = 1
    /\ res["write_leb128d"].ret = 3
    /\ Len(res["write_leb128d"].out) = 4

\* C16: the loops of write_leb128a and of write_unsigned_leb128_to never
\* emit more than leb128_size(T) bytes, and they are left: the call returns.
C16_LoopsTerminate ==
    /\ [](Len(ByteWrites(res.log)) <= leb128_size(ty))
    /\ <>(res.status = "ok")

\* a loop has returned after the greatest number of iterations for a u128
C16_Witness ==
    /\ ty = "u128"
    /\ res.status = "ok"
    /\ res.ret = 19
    /\ Len(ByteWrites(res.log)) = 19

\* C17: write_leb128b_solo does not write to the vector inside its loop: as
\* long as the loop runs the vector is as it was before the call, and the
\* bytes are in the vector when the call has returned.
C17_OneBulkWriteAfterLoop ==
    /\ res.status = "running" => (res.out = vec /\ res.log = <<>>)
    /\ res.status = "ok" => res.log # <<>>

\* C18: a call of an encoder that returns n leaves every byte the vector
\* held at an index outside [start, start + n) unchanged, and the vector is
\* not shorter afterwards.
C18_EncodeFrame ==
    \A f \in DOMAIN res :
        (Called(f) /\ res[f].status = "ok") =>
            /\ Len(res[f].out) >= Len(vec)
            /\ \A i \in 1..Len(vec) :
                  (i <= start_position \/ i > start_position + res[f].ret) =>
                      res[f].out[i] = vec[i]

\* the total length the claim reads off the first byte
LesqliteLength(first) ==
    IF first < 185 THEN 1 ELSE IF first < 249 THEN 2 ELSE first - 249 + 3

\* the value a lesqlite byte sequence stands for
LesqliteValueOf(bytes) ==
    IF bytes[1] < 185 THEN ByteBits[bytes[1]]
    ELSE IF bytes[1] < 249
    THEN NatBits(185 + 256 * (bytes[1] - 185) + bytes[2])
    ELSE UNION {Shl(ByteBits[bytes[i + 1]], 8 * (i - 1), 128) :
                    i \in 1..(Len(bytes) - 1)}

\* C20: the first byte a lesqlite encoder emits gives the length of the
\* encoding (below 185: 1, 185..248: 2, t >= 249: t - 249 + 3), the tag is
\* 249 + (k - 2) without leaving the range of a byte, and the value can be
\* read back from the bytes, so that two values never share an encoding.
\* An appending call always returns.
C20_LesqliteSelfDelimiting ==
    Called("write_lesqlite") =>
        LET r == res["write_lesqlite"]
            bytes == SubSeq(r.out, start_position + 1, start_position + r.ret)
        IN  /\ start_position = Len(vec) => r.status = "ok"
            /\ r.status = "ok" =>
                  /\ r.ret >= 1
                  /\ Len(bytes) = r.ret
                  /\ r.ret = LesqliteLength(bytes[1])
                  /\ r.ret > 2 => /\ bytes[1] = 249 + (MinBytes(value) - 2)
                                  /\ bytes[1] <= 255
                  /\ LesqliteValueOf(bytes) = value

\* the largest 64-bit value: the tag is 255 and nine bytes are written
C20_Witness ==
    /\ ty = "usize"
    /\ value = 0..63
    /\ overflow_checks
    /\ res["write_lesqlite"].status = "ok"
    /\ res["write_lesqlite"].ret = 9
    /\ res["write_lesqlite"].out[start_position + 1] = 255

====
